---------------------------- MODULE Spec2Model ----------------------------
(***************************************************************************)
(* A model of src/rev_comp.py: the valid-bases lookup, the DNA sequence    *)
(* validator and the reverse-complement computation.                       *)
(*                                                                         *)
(* Python values are records [type, items]: `type` is the value's          *)
(* type(...).__name__ and `items` what iterating or indexing it yields (a  *)
(* str's characters, a list's elements, a dict's key -> value function).   *)
(* A call's outcome is either Return(value) or Raise(exception class,      *)
(* message); a message is the sequence of the pieces the code              *)
(* concatenates with +.                                                    *)
(***************************************************************************)
EXTENDS Integers, Sequences, FiniteSets, TLC

VARIABLES
    first,   \* an earlier call of a public function: [op, args, out]
    last,    \* the most recent call made after `first`, or NoCall
    held     \* the object a caller kept from a get_valid_bases call, or None

vars == <<first, last, held>>

----------------------------------------------------------------------------
(* Bounds of the model *)

\* Longest sequence handed to validate_dna_sequence / get_reverse_complement.
MaxLen == 3

\* Longest list a caller grows a kept list to.
MaxHeldLen == 4

----------------------------------------------------------------------------
(* Python values and call outcomes *)

None == [type |-> "NoneType"]

PyStr(chars) == [type |-> "str", items |-> chars]

PyList(elems) == [type |-> "list", items |-> elems]

PyDict(map) == [type |-> "dict", items |-> map]

PyInt == [type |-> "int"]

Return(value) == [kind |-> "return", value |-> value]

Raise(exc, message) == [kind |-> "raise", exc |-> exc, message |-> message]

Elems(s) == {s[i] : i \in DOMAIN s}

\* The types of the model's values that a for loop iterates.
IterableTypes == {"str", "list", "dict"}

\* The class hierarchy with DnaSequenceError derived from Exception.
BaseClass_flat(c) ==
    CASE c = "Error"       -> "Exception"
      [] c = "LookupError" -> "Exception"
      [] c = "KeyError"    -> "LookupError"
      [] c = "Exception"   -> "BaseException"
      [] c \in {"DnaSequenceError", "ValueError", "TypeError"} -> "Exception"
      [] OTHER             -> "BaseException"

\* The class hierarchy: a class's direct base.
BaseClass(c) ==
    CASE c = "DnaSequenceError" -> "Error"
      [] c = "Error"            -> "Exception"
      [] c = "ValueError"       -> "Exception"
      [] c = "KeyError"         -> "LookupError"
      [] c = "LookupError"      -> "Exception"
      [] c = "TypeError"        -> "Exception"
      [] c = "Exception"        -> "BaseException"
      [] OTHER                  -> "BaseException"

RECURSIVE IsSubclass(_, _)
IsSubclass(c, d) ==
    IF c = d THEN TRUE
    ELSE IF c = "BaseException" THEN FALSE
    ELSE IsSubclass(BaseClass(c), d)

\* The base compared as given.
upper_identity(base) == base

\* str.upper() of a one-character string.
upper(base) ==
    CASE base = "a" -> "A"
      [] base = "g" -> "G"
      [] base = "c" -> "C"
      [] base = "t" -> "T"
      [] base = "u" -> "U"
      [] OTHER      -> base

\* str(position) of an int.
str(position) == ToString(position)

\* s[::-1]
Reversed(s) == [i \in 1..Len(s) |-> s[Len(s) + 1 - i]]

\* zip(a, b): pairs up to the shorter argument.
zip(a, b) ==
    LET n == IF Len(a) <= Len(b) THEN Len(a) ELSE Len(b)
    IN  [i \in 1..n |-> <<a[i], b[i]>>]

\* dict(pairs): a later pair with the same key replaces an earlier one.
dict(pairs) ==
    [k \in {pairs[i][1] : i \in DOMAIN pairs} |->
        LET i == CHOOSE i \in DOMAIN pairs :
                    /\ pairs[i][1] = k
                    /\ \A j \in DOMAIN pairs : pairs[j][1] = k => j <= i
        IN  pairs[i][2]]

----------------------------------------------------------------------------
(* The functions of the module *)

\* The bases in alphabetical order.
valid_bases_sorted == <<"A", "C", "G", "T">>

\* One list for all calls, which is the list a caller was handed.
valid_bases_shared ==
    IF held.type = "list" THEN held.items ELSE <<"A", "G", "C", "T">>

\* The list the local valid_bases is bound to: built anew by every call.
valid_bases == <<"A", "G", "C", "T">>

\* get_valid_bases pairing each base with the next one of the list.
get_valid_bases_shifted(args) ==
    LET return_values == IF Len(args) = 0 THEN "bases_only" ELSE args[1]
    IN  IF return_values = "bases_only"
        THEN Return(PyList(valid_bases))
        ELSE IF return_values = "base_complements"
        THEN Return(PyDict(dict(zip(valid_bases,
                                    Tail(valid_bases) \o <<Head(valid_bases)>>))))
        ELSE Raise("ValueError",
                   <<"return_values must be either '", "bases_only", "' or ",
                     "'", "base_complements", "'">>)

\* get_valid_bases pairing each base with itself.
get_valid_bases_unreversed(args) ==
    LET return_values == IF Len(args) = 0 THEN "bases_only" ELSE args[1]
    IN  IF return_values = "bases_only"
        THEN Return(PyList(valid_bases))
        ELSE IF return_values = "base_complements"
        THEN Return(PyDict(dict(zip(valid_bases, valid_bases))))
        ELSE Raise("ValueError",
                   <<"return_values must be either '", "bases_only", "' or ",
                     "'", "base_complements", "'">>)

\* get_valid_bases(*args): args is <<>> (the default applies) or <<selector>>.
get_valid_bases(args) ==
    LET return_values == IF Len(args) = 0 THEN "bases_only" ELSE args[1]
    IN  IF return_values = "bases_only"
        THEN Return(PyList(valid_bases))
        ELSE IF return_values = "base_complements"
        THEN Return(PyDict(dict(zip(valid_bases, Reversed(valid_bases)))))
        ELSE Raise("ValueError",
                   <<"return_values must be either '", "bases_only", "' or ",
                     "'", "base_complements", "'">>)

_validate_base(base, position) ==
    LET bases == get_valid_bases(<<>>)
    IN  IF bases.kind = "raise" THEN bases
        ELSE IF upper(base) \notin Elems(bases.value.items)
        THEN Raise("DnaSequenceError",
                   <<"invalid base '", base, "' found at sequence position ",
                     str(position)>>)
        ELSE Return(None)

_validate_type(dna_sequence) ==
    LET sequence_type == dna_sequence.type
    IN  IF sequence_type # "str"
        THEN Raise("DnaSequenceError",
                   <<"invalid sequence type (", sequence_type, ")">>)
        ELSE Return(None)

\* validate_dna_sequence's loop with the position counted from 0.
RECURSIVE validate_loop_zero_based(_, _)
validate_loop_zero_based(items, position) ==
    IF position = Len(items)
    THEN [result |-> Return(None), examined |-> position]
    ELSE LET next == position + 1
             r    == _validate_base(items[next], position)
         IN  IF r.kind = "raise"
             THEN [result |-> r, examined |-> next]
             ELSE validate_loop_zero_based(items, next)

\* The for loop of validate_dna_sequence after `position` iterations.
\* `examined` counts the calls of _validate_base made.
RECURSIVE validate_loop(_, _)
validate_loop(items, position) ==
    IF position = Len(items)
    THEN [result |-> Return(None), examined |-> position]
    ELSE LET next == position + 1
             r    == _validate_base(items[next], next)
         IN  IF r.kind = "raise"
             THEN [result |-> r, examined |-> next]
             ELSE validate_loop(items, next)

\* validate_dna_sequence with the type checked after the loop over the bases.
validate_dna_sequence_type_last(dna_sequence) ==
    LET t == _validate_type(dna_sequence)
        v == IF dna_sequence.type \notin IterableTypes
             THEN [result   |-> Raise("TypeError",
                                      <<"'", dna_sequence.type, "' object is not iterable">>),
                   examined |-> 0]
             ELSE validate_loop(dna_sequence.items, 0)
    IN  IF v.result.kind = "raise" THEN v
        ELSE IF t.kind = "raise" THEN [result |-> t, examined |-> v.examined]
        ELSE v

\* `for base in dna_sequence` raises TypeError when the value is not iterable.
validate_dna_sequence(dna_sequence) ==
    LET t == _validate_type(dna_sequence)
    IN  IF t.kind = "raise"
        THEN [result |-> t, examined |-> 0]
        ELSE IF dna_sequence.type \notin IterableTypes
        THEN [result   |-> Raise("TypeError",
                                 <<"'", dna_sequence.type, "' object is not iterable">>),
              examined |-> 0]
        ELSE validate_loop(dna_sequence.items, 0)

\* "".join(complements[base.upper()] for base in bases): a missing key
\* raises KeyError at the first base that has none.
join_complements(complements, bases) ==
    LET missing == {i \in DOMAIN bases : upper(bases[i]) \notin DOMAIN complements}
    IN  IF missing # {}
        THEN LET i == CHOOSE i \in missing : \A j \in missing : i <= j
             IN  Raise("KeyError", <<"'", upper(bases[i]), "'">>)
        ELSE Return(PyStr([i \in DOMAIN bases |-> complements[upper(bases[i])]]))

\* get_reverse_complement without the [::-1].
get_reverse_complement_unreversed(dna_sequence) ==
    LET complements == get_valid_bases(<<"base_complements">>)
        v           == validate_dna_sequence(dna_sequence)
    IN  IF complements.kind = "raise"
        THEN [result |-> complements, examined |-> 0]
        ELSE IF v.result.kind = "raise"
        THEN v
        ELSE [result   |-> join_complements(complements.value.items,
                                            dna_sequence.items),
              examined |-> v.examined]

\* get_reverse_complement validating the reversed sequence.
get_reverse_complement_validating_reversed(dna_sequence) ==
    LET complements == get_valid_bases(<<"base_complements">>)
        reversed    == IF dna_sequence.type \in IterableTypes
                       THEN [dna_sequence EXCEPT !.items = Reversed(@)]
                       ELSE dna_sequence
        v           == validate_dna_sequence(reversed)
    IN  IF complements.kind = "raise"
        THEN [result |-> complements, examined |-> 0]
        ELSE IF v.result.kind = "raise"
        THEN v
        ELSE [result   |-> join_complements(complements.value.items,
                                            reversed.items),
              examined |-> v.examined]

get_reverse_complement(dna_sequence) ==
    LET complements == get_valid_bases(<<"base_complements">>)
        v           == validate_dna_sequence(dna_sequence)
    IN  IF complements.kind = "raise"
        THEN [result |-> complements, examined |-> 0]
        ELSE IF v.result.kind = "raise"
        THEN v
        ELSE [result   |-> join_complements(complements.value.items,
                                            Reversed(dna_sequence.items)),
              examined |-> v.examined]

----------------------------------------------------------------------------
(* Inputs *)

\* Characters a caller puts in a sequence: the bases in both cases, and
\* characters that are no base (the doctests' 'U' and '2', and a lower-case 'u').
Chars == {"A", "G", "C", "T", "a", "g", "c", "t", "U", "u", "2"}

RECURSIVE SeqsUpTo(_, _)
SeqsUpTo(S, n) ==
    IF n = 0 THEN {<<>>}
    ELSE LET shorter == SeqsUpTo(S, n - 1)
         IN  shorter \cup {Append(s, c) : s \in {t \in shorter : Len(t) = n - 1}, c \in S}

\* The sequences that differ from s at most in the case of their characters.
RECURSIVE Recasings(_)
Recasings(s) ==
    IF Len(s) = 0 THEN {<<>>}
    ELSE {<<c>> \o r : c \in {d \in Chars : upper(d) = upper(s[1])},
                       r \in Recasings(Tail(s))}

Texts == {PyStr(s) : s \in SeqsUpTo(Chars, MaxLen)}

\* Values that are not text: an int, and lists of one-character strings.
NonTexts == {PyInt} \cup {PyList(s) : s \in SeqsUpTo(Chars, MaxLen)}

Inputs == Texts \cup NonTexts

\* The argument tuples handed to get_valid_bases.
SelectorArgs ==
    {<<>>, <<"bases_only">>, <<"base_complements">>, <<"Whoops!">>,
     <<"BASES_ONLY">>, <<"">>}

\* The sequences of the module's doctests.
DoctestInputs ==
    {PyStr(<<"A", "G", "C", "T">>), PyStr(<<"a", "G", "C", "T">>),
     PyStr(<<"A", "G", "C", "U">>), PyStr(<<"2", "G", "C", "T">>), PyInt}

----------------------------------------------------------------------------
(* Calls *)

NoCall == [op |-> "none"]

\* What the docstring of get_valid_bases says it returns.
DocumentedBases == PyList(<<"A", "G", "C", "T">>)

DocumentedComplements ==
    PyDict([b \in {"A", "G", "C", "T"} |->
               CASE b = "A" -> "T" [] b = "G" -> "C" [] b = "C" -> "G" [] b = "T" -> "A"])

\* The record of calling public function `op` with the argument tuple `args`.
\* `after_mutation` notes whether the caller then kept an object of
\* get_valid_bases that it had changed.
Call(op, args) ==
    [op   |-> op,
     args |-> args,
     after_mutation |-> held \notin {None, DocumentedBases, DocumentedComplements},
     out  |-> CASE op = "get_valid_bases" ->
                     [result |-> get_valid_bases(args), examined |-> 0]
                [] op = "validate_dna_sequence" ->
                     validate_dna_sequence(args[1])
                [] op = "get_reverse_complement" ->
                     get_reverse_complement(args[1])]

SequenceOps == {"validate_dna_sequence", "get_reverse_complement"}

Init ==
    /\ first = NoCall
    /\ last = NoCall
    /\ held = None

\* A caller with no call on record calls get_valid_bases and drops what it
\* returns.
CallGetValidBases ==
    /\ first = NoCall
    /\ \E args \in SelectorArgs :
        /\ first' = Call("get_valid_bases", args)
        /\ last' = NoCall
        /\ UNCHANGED held

CallValidate(S) ==
    /\ first = NoCall
    /\ \E x \in S :
        /\ first' = Call("validate_dna_sequence", <<x>>)
        /\ last' = NoCall
        /\ UNCHANGED held

CallReverseComplement(S) ==
    /\ first = NoCall
    /\ \E x \in S :
        /\ first' = Call("get_reverse_complement", <<x>>)
        /\ last' = NoCall
        /\ UNCHANGED held

\* A later call of either sequence function on the argument of `first`.
CallAgain ==
    /\ first.op \in SequenceOps
    /\ \E op \in SequenceOps : last' = Call(op, first.args)
    /\ UNCHANGED <<first, held>>

\* After get_reverse_complement(s): get_reverse_complement of a sequence that
\* differs from s only in the case of its characters.
CallRecased ==
    /\ first.op = "get_reverse_complement"
    /\ first.args[1].type = "str"
    /\ \E t \in Recasings(first.args[1].items) :
           last' = Call("get_reverse_complement", <<PyStr(t)>>)
    /\ UNCHANGED <<first, held>>

\* After get_reverse_complement returned a value: get_reverse_complement of
\* that value.
CallOnOutput ==
    /\ first.op = "get_reverse_complement"
    /\ first.out.result.kind = "return"
    /\ last' = Call("get_reverse_complement", <<first.out.result.value>>)
    /\ UNCHANGED <<first, held>>

\* A caller calls get_valid_bases and keeps the object it returns.
KeepValidBases ==
    \E args \in {<<>>, <<"bases_only">>, <<"base_complements">>} :
        LET c == Call("get_valid_bases", args)
        IN  /\ c.out.result.kind = "return"
            /\ last' = c
            /\ held' = c.out.result.value
            /\ UNCHANGED first

\* A caller changes the list or dict it keeps, in place.
MutateHeld ==
    /\ \/ /\ held.type = "list"
          /\ \/ /\ Len(held.items) > 0                       \* held.pop()
                /\ held' = PyList(SubSeq(held.items, 1, Len(held.items) - 1))
             \/ /\ Len(held.items) > 1                       \* held.reverse()
                /\ held' = PyList(Reversed(held.items))
             \/ /\ Len(held.items) < MaxHeldLen              \* held.append('U')
                /\ held' = PyList(Append(held.items, "U"))
       \/ /\ held.type = "dict"
          /\ \E k \in DOMAIN held.items :
                \/ held' = PyDict([j \in DOMAIN held.items \ {k} |->
                                      held.items[j]])          \* del held[k]
                \/ held' = PyDict([held.items EXCEPT ![k] = k]) \* held[k] = k
    /\ held' # held
    /\ UNCHANGED <<first, last>>

\* The caller forgets the calls it made and starts over.
Forget ==
    /\ first # NoCall
    /\ first' = NoCall
    /\ last' = NoCall
    /\ UNCHANGED held

Next ==
    \/ CallGetValidBases
    \/ CallValidate(Inputs)
    \/ CallReverseComplement(Inputs)
    \/ CallAgain
    \/ CallRecased
    \/ CallOnOutput
    \/ Forget

Spec == Init /\ [][Next]_vars

\* Callers that keep and change what get_valid_bases returned, calling the
\* functions on the doctests' sequences.
NextHeld ==
    \/ CallGetValidBases
    \/ CallValidate(DoctestInputs)
    \/ CallReverseComplement(DoctestInputs)
    \/ KeepValidBases
    \/ MutateHeld
    \/ CallAgain
    \/ Forget

SpecHeld == Init /\ [][NextHeld]_vars

----------------------------------------------------------------------------
(* What the properties are stated with *)

\* The calls on record: 1 is `first`, 2 is `last`.
CallOf(i) == IF i = 1 THEN first ELSE last

Calls == {i \in {1, 2} : CallOf(i).op # "none"}

Bases == {"A", "G", "C", "T"}

\* Upper-casing, stated on the characters of the model.
UpperCase(c) ==
    IF c \in {"a", "g", "c", "t", "u"}
    THEN CHOOSE d \in {"A", "G", "C", "T", "U"} :
            <<c, d>> \in {<<"a", "A">>, <<"g", "G">>, <<"c", "C">>,
                          <<"t", "T">>, <<"u", "U">>}
    ELSE c

UpperCaseSeq(s) == [i \in DOMAIN s |-> UpperCase(s[i])]

\* The pairing A <-> T, G <-> C.
Complement(b) ==
    CASE b = "A" -> "T" [] b = "T" -> "A" [] b = "G" -> "C" [] b = "C" -> "G"

\* The positions of x's characters that are no base in either case.
InvalidPositions(x) == {i \in DOMAIN x.items : UpperCase(x.items[i]) \notin Bases}

IsText(x) == x.type = "str"

IsValidSequence(x) == IsText(x) /\ InvalidPositions(x) = {}

Smallest(S) == CHOOSE p \in S : \A q \in S : p <= q

\* The failure for the character at position p of the text x.
InvalidBaseFailure(x, p) ==
    Raise("DnaSequenceError",
          <<"invalid base '", x.items[p], "' found at sequence position ",
            ToString(p)>>)

\* The failure for a value that is not text.
TypeFailure(x) ==
    Raise("DnaSequenceError", <<"invalid sequence type (", x.type, ")">>)

----------------------------------------------------------------------------
(* The properties *)

\* C1: get_reverse_complement of a sequence s of n characters that are all
\* bases in either case returns a string of n characters, the i-th (0-based)
\* being the complement of the upper-cased s[n-1-i] under A <-> T, G <-> C,
\* so a string of the upper-case bases only.
C1_ReverseComplementOfValid ==
    \A ci \in Calls : LET c == CallOf(ci) IN
        (c.op = "get_reverse_complement" /\ IsValidSequence(c.args[1])) =>
            LET s == c.args[1].items
                n == Len(s)
                r == c.out.result
            IN  /\ r.kind = "return"
                /\ r.value.type = "str"
                /\ Len(r.value.items) = n
                /\ \A i \in 1..n :
                      r.value.items[i] = Complement(UpperCase(s[n + 1 - i]))
                /\ Elems(r.value.items) \subseteq Bases

C1_Witness ==
    /\ first.op = "get_reverse_complement"
    /\ first.args = <<PyStr(<<"a", "G", "G">>)>>
    /\ first.out.result = Return(PyStr(<<"C", "C", "T">>))

\* C2: for a string s, validate_dna_sequence returns None if and only if
\* every character upper-cased is a base; otherwise it fails once, with the
\* error for the smallest 1-based position p of an invalid character, the
\* message carrying that character as given and the number p, and it has
\* examined the characters up to p and none after it.
C2_ValidateReportsFirstInvalid ==
    \A ci \in Calls : LET c == CallOf(ci) IN
        (c.op = "validate_dna_sequence" /\ IsText(c.args[1])) =>
            LET x   == c.args[1]
                bad == InvalidPositions(x)
            IN  IF bad = {}
                THEN c.out = [result |-> Return(None), examined |-> Len(x.items)]
                ELSE c.out = [result   |-> InvalidBaseFailure(x, Smallest(bad)),
                              examined |-> Smallest(bad)]

C2_Witness ==
    /\ first.op = "validate_dna_sequence"
    /\ first.args = <<PyStr(<<"A", "u", "2">>)>>
    /\ first.out.result.kind = "raise"
    /\ first.out.result.message[2] = "u"
    /\ first.out.result.message[4] = "2"
    /\ first.out.examined = 2

\* C3: on an input on which validate_dna_sequence fails,
\* get_reverse_complement fails with the same failure (class and message),
\* an invalid base's position being the 1-based one in the input as given,
\* and it returns no string.
C3_ReverseComplementPropagatesFailure ==
    /\ \A ci \in Calls : LET c == CallOf(ci) IN \A di \in Calls : LET d == CallOf(di) IN
          ( /\ c.op = "validate_dna_sequence"
            /\ d.op = "get_reverse_complement"
            /\ c.args = d.args
            /\ c.out.result.kind = "raise" ) =>
                /\ d.out.result.kind = "raise"
                /\ d.out.result = c.out.result
    /\ \A di \in Calls : LET d == CallOf(di) IN
          ( /\ d.op = "get_reverse_complement"
            /\ IsText(d.args[1])
            /\ InvalidPositions(d.args[1]) # {} ) =>
                d.out.result =
                    InvalidBaseFailure(d.args[1], Smallest(InvalidPositions(d.args[1])))

C3_Witness ==
    /\ first.op = "validate_dna_sequence"
    /\ first.args = <<PyStr(<<"2", "G", "C">>)>>
    /\ first.out.result.kind = "raise"
    /\ last.op = "get_reverse_complement"
    /\ last.args = first.args
    /\ last.out.result.kind = "raise"
    /\ last.out.result.message[4] = "1"

\* C4: on an input that is not text, validate_dna_sequence and
\* get_reverse_complement fail with the type error naming the input's type
\* and examine no element of it, whatever its elements are.
C4_TypeCheckFirst ==
    \A ci \in Calls : LET c == CallOf(ci) IN
        (c.op \in SequenceOps /\ ~IsText(c.args[1])) =>
            /\ c.out.result = TypeFailure(c.args[1])
            /\ c.out.examined = 0

C4_Witness ==
    /\ first.op = "get_reverse_complement"
    /\ first.args = <<PyList(<<"A", "U">>)>>
    /\ first.out.result.kind = "raise"
    /\ first.out.result.message = <<"invalid sequence type (", "list", ")">>
    /\ first.out.examined = 0

\* C5: for a valid sequence s, get_reverse_complement(s) is a valid sequence
\* and get_reverse_complement of it is s upper-cased.
C5_TwiceIsUpperCase ==
    (first.op = "get_reverse_complement" /\ IsValidSequence(first.args[1])) =>
        /\ first.out.result.kind = "return"
        /\ IsValidSequence(first.out.result.value)
        /\ ( /\ last.op = "get_reverse_complement"
             /\ last.args = <<first.out.result.value>> ) =>
                last.out.result = Return(PyStr(UpperCaseSeq(first.args[1].items)))

C5_Witness ==
    /\ first.op = "get_reverse_complement"
    /\ first.args = <<PyStr(<<"a", "G", "c">>)>>
    /\ last.op = "get_reverse_complement"
    /\ last.args = <<PyStr(<<"G", "C", "T">>)>>
    /\ last.out.result = Return(PyStr(<<"A", "G", "C">>))

\* C6: get_valid_bases returns the list [A, G, C, T] for "bases_only" and for
\* no selector, the mapping {A:T, G:C, C:G, T:A} for "base_complements", and
\* for any other selector returns nothing and fails with the argument error
\* (the code's ValueError), whose message names both legal selectors.
C6_LookupModes ==
    \A ci \in Calls : LET c == CallOf(ci) IN
        c.op = "get_valid_bases" =>
            LET r == c.out.result
            IN  IF c.args \in {<<>>, <<"bases_only">>}
                THEN r = Return(PyList(<<"A", "G", "C", "T">>))
                ELSE IF c.args = <<"base_complements">>
                THEN /\ r.kind = "return"
                     /\ r.value.type = "dict"
                     /\ DOMAIN r.value.items = Bases
                     /\ \A b \in Bases : r.value.items[b] = Complement(b)
                ELSE /\ r.kind = "raise"
                     /\ r.exc = "ValueError"
                     /\ {"bases_only", "base_complements"} \subseteq Elems(r.message)

C6_Witness ==
    /\ first.op = "get_valid_bases"
    /\ first.args = <<"Whoops!">>
    /\ first.out.result.kind = "raise"
    /\ first.out.result.exc = "ValueError"

\* The case a failed call failed in.
FailureCase(c) ==
    IF c.op = "get_valid_bases" THEN "argument"
    ELSE IF ~IsText(c.args[1]) THEN "type"
    ELSE "base"

Failed == {i \in Calls : CallOf(i).out.result.kind = "raise"}

\* C7 as the specification states it: every failure of the three public
\* functions is of a class under the one domain error class (Error), and
\* the argument, type and invalid-base failures are of three different
\* classes.
C7_ThreeKindsUnderDomainError ==
    /\ \A ci \in Failed : LET c == CallOf(ci) IN IsSubclass(c.out.result.exc, "Error")
    /\ \A ci \in Failed : LET c == CallOf(ci) IN \A di \in Failed : LET d == CallOf(di) IN
          FailureCase(c) # FailureCase(d) => c.out.result.exc # d.out.result.exc

\* C7 as amended: there are two failure classes.  A bad selector fails
\* with the built-in ValueError, which is not under the module's Error; a
\* sequence that is not text and an invalid base both fail with
\* DnaSequenceError, which is under Error, and differ in the message only.
C7_TwoClasses ==
    \A ci \in Failed : LET c == CallOf(ci) IN
        LET r == c.out.result
        IN  IF c.op = "get_valid_bases"
            THEN /\ r.exc = "ValueError"
                 /\ ~IsSubclass(r.exc, "Error")
                 /\ IsSubclass(r.exc, "Exception")
            ELSE /\ r.exc = "DnaSequenceError"
                 /\ IsSubclass(r.exc, "Error")
                 /\ r.message[1] = IF FailureCase(c) = "type"
                                   THEN "invalid sequence type ("
                                   ELSE "invalid base '"

C7_Witness ==
    /\ first.op = "get_valid_bases"
    /\ first.args = <<"BASES_ONLY">>
    /\ 1 \in Failed
    /\ first.out.result.exc = "ValueError"
    /\ ~IsSubclass(first.out.result.exc, "Error")

\* C8: for valid sequences s and t that are equal upper-cased,
\* get_reverse_complement(s) = get_reverse_complement(t); and a call repeated
\* on the same input gives the same result.
C8_CaseIndependent ==
    /\ ( /\ first.op = "get_reverse_complement"
         /\ last.op = "get_reverse_complement"
         /\ IsValidSequence(first.args[1])
         /\ IsValidSequence(last.args[1])
         /\ UpperCaseSeq(first.args[1].items) = UpperCaseSeq(last.args[1].items) ) =>
            /\ first.out.result.kind = "return"
            /\ last.out.result = first.out.result
    /\ (first.op # "none" /\ last.op = first.op /\ last.args = first.args) =>
            last.out = first.out

C8_Witness ==
    /\ first.op = "get_reverse_complement"
    /\ first.args = <<PyStr(<<"a", "G", "t">>)>>
    /\ last.op = "get_reverse_complement"
    /\ last.args = <<PyStr(<<"A", "g", "T">>)>>
    /\ last.out.result = Return(PyStr(<<"A", "C", "T">>))
    /\ first.out.result = last.out.result

\* C9: the mapping get_valid_bases("base_complements") returns has exactly 4
\* entries, keyed by the bases A, G, C, T; every base maps to a base other
\* than itself; and the mapping is its own inverse.
C9_ComplementsInvolution ==
    \A ci \in Calls : LET c == CallOf(ci) IN
        (c.op = "get_valid_bases" /\ c.args = <<"base_complements">>) =>
            /\ c.out.result.kind = "return"
            /\ c.out.result.value.type = "dict"
            /\ LET m == c.out.result.value.items
               IN  /\ Cardinality(DOMAIN m) = 4
                   /\ DOMAIN m = Bases
                   /\ \A b \in Bases :
                         /\ m[b] \in Bases
                         /\ m[b] # b
                         /\ m[m[b]] = b

C9_Witness ==
    /\ first.op = "get_valid_bases"
    /\ first.args = <<"base_complements">>
    /\ first.out.result.kind = "return"
    /\ first.out.result.value.items["G"] = "C"

\* What the doctests give for a first call of a sequence function.
FirstCallResult(op, x) ==
    IF x = PyInt THEN TypeFailure(x)
    ELSE IF x.items[4] = "U" THEN InvalidBaseFailure(x, 4)
    ELSE IF x.items[1] = "2" THEN InvalidBaseFailure(x, 1)
    ELSE IF op = "validate_dna_sequence" THEN Return(None)
    ELSE Return(PyStr(<<"A", "G", "C", "T">>))

\* C10: whatever calls were made before, and whatever a caller did to a
\* list or mapping get_valid_bases returned, get_valid_bases returns the
\* list [A, G, C, T] or the mapping {A:T, G:C, C:G, T:A}, and
\* validate_dna_sequence and get_reverse_complement give what they give on a
\* first call with the same input.
C10_NoSharedState ==
    /\ \A ci \in Calls : LET c == CallOf(ci) IN
          c.op = "get_valid_bases" =>
              /\ c.args \in {<<>>, <<"bases_only">>} =>
                    c.out.result = Return(DocumentedBases)
              /\ c.args = <<"base_complements">> =>
                    c.out.result = Return(DocumentedComplements)
    /\ \A ci \in Calls : LET c == CallOf(ci) IN
          c.op \in SequenceOps => c.out.result = FirstCallResult(c.op, c.args[1])
    /\ \A ci \in Calls : LET c == CallOf(ci) IN \A di \in Calls : LET d == CallOf(di) IN
          (c.op = d.op /\ c.args = d.args) => c.out = d.out

C10_Witness ==
    /\ held.type = "list"
    /\ held.items = <<"T", "C", "G">>
    /\ first.op = "get_reverse_complement"
    /\ first.after_mutation
    /\ first.args = <<PyStr(<<"a", "G", "C", "T">>)>>
    /\ first.out.result = Return(PyStr(<<"A", "G", "C", "T">>))
    /\ last.op = "validate_dna_sequence"
    /\ last.after_mutation
    /\ last.out.result = Return(None)

=============================================================================
